---- MODULE Spec2Model ----
(***************************************************************************)
(* Model of rembg_server.py: the DeepLab/colour-rule segmentation server.  *)
(*                                                                         *)
(* An image is one row of RGB pixels (height 1), each channel an 8-bit     *)
(* value as numpy stores it (dtype uint8).  The arithmetic on the channels *)
(* is numpy's: uint8 + uint8 and uint8 - uint8 are computed modulo 256.    *)
(* brightness is kept as three times its value (the wrapped channel sum),  *)
(* so a comparison brightness > t is written brightness3 > 3 * t.          *)
(***************************************************************************)
EXTENDS Integers, Sequences, FiniteSets

\* ---------------------------------------------------------------- bounds
MaxWidth == 2

MaxGridWidth == 2

\* Pixels the requests are built from; each one is a case of the rules.
Pixels ==
    { <<135, 206, 235>>,   \* sky blue, channel sum 576 wraps to 64
      <<34, 139, 34>>,     \* forest green, sum 207
      <<200, 150, 120>>,   \* skin tone, sum 470 wraps to 214
      <<200, 150, 150>>,   \* skin tone, sum 500 wraps to 244
      <<100, 100, 50>>,    \* earth tone, sum 250
      <<100, 100, 100>>,   \* mid grey, sum 300 wraps to 44
      <<110, 120, 85>>,    \* brown with g > r, sum 315 wraps to 59
      <<120, 110, 60>>,    \* brown with r > g, sum 290 wraps to 34
      <<60, 150, 85>>,     \* blue-leaning green, sum 295 wraps to 39
      <<40, 80, 130>>,     \* blue, sum 250
      <<0, 0, 0>>,         \* black
      <<255, 255, 255>> }  \* white, sum 765 wraps to 253

\* Class ids the external model may emit (background, person, another).
ClassIds == {0, 15, 16}

Images == UNION { [1..w -> Pixels] : w \in 1..MaxWidth }

Grids == UNION { [1..w -> ClassIds] : w \in 1..MaxGridWidth }

Requests ==
    { [kind |-> k, image |-> <<>>] : k \in {"nofile", "emptyname", "unreadable"} }
    \cup { [kind |-> "image", image |-> img] : img \in Images }

\* ----------------------------------------------------------------- state
VARIABLES
    deeplab_model,   \* "None" or "loaded": the global set by load_deeplab_model
    numpy2,          \* TRUE when the installed numpy keeps uint8 for uint8 + int
    infer_faults,    \* TRUE when the external model call raises at request time
    fault_logged,    \* "Error in DeepLab segmentation" has been printed
    op,              \* the handler whose response is being returned, or "none"
    request,         \* kind of the request being answered
    status,          \* HTTP status of the response (0 when there is none)
    error,           \* the 'error' text of the response, "" if none
    image,           \* input_image of the request
    mode,            \* "refinement", "fallback" or "none"
    predictions,     \* the class-id grid after resizing (refinement only)
    subject_mask, sky_mask, ground_mask, other_mask,
    output,          \* pixels of the image sent back
    health_body      \* body of the health response

vars == <<deeplab_model, numpy2, infer_faults, fault_logged, op, request,
          status, error, image, mode, predictions,
          subject_mask, sky_mask, ground_mask, other_mask, output, health_body>>

\* ------------------------------------------------------ numpy arithmetic
\* uint8 scalar + uint8 scalar, uint8 scalar - uint8 scalar
add_u8(x, y) == (x + y) % 256

sub_u8(x, y) == (x - y) % 256

\* uint8 scalar + Python int: int64 under numpy 1.x, uint8 under numpy 2.x
add_int(x, k) == IF numpy2 THEN (x + k) % 256 ELSE x + k

max3(r, g, b) == IF r >= g /\ r >= b THEN r ELSE IF g >= b THEN g ELSE b

min3(r, g, b) == IF r <= g /\ r <= b THEN r ELSE IF g <= b THEN g ELSE b

\* 3 * brightness, brightness = (r + g + b) / 3 on uint8 scalars
brightness3(r, g, b) == add_u8(add_u8(r, g), b)

saturation(r, g, b) ==
    IF brightness3(r, g, b) > 0 THEN sub_u8(max3(r, g, b), min3(r, g, b)) ELSE 0

\* ---------------------------------------------------------- pixel rules
is_sky_like(r, g, b) ==
    /\ brightness3(r, g, b) > 3 * 80
    /\ b > 80
    /\ (b >= r \/ b >= g)
    /\ (b > add_int(r, 5) \/ b > add_int(g, 5))
    /\ saturation(r, g, b) < 180

is_green_dominant(r, g, b) == g > add_int(r, 20) /\ g > add_int(b, 20)

\* abs() of a uint8 is the value itself
is_brownish(r, g, b) == r > 100 /\ g > 80 /\ b < 100 /\ sub_u8(r, g) < 30

is_ground_like(r, g, b) ==
    /\ ~ is_sky_like(r, g, b)
    /\ b < 90
    /\ \/ (is_green_dominant(r, g, b) /\ g > 100 /\ brightness3(r, g, b) < 3 * 230)
       \/ (is_brownish(r, g, b) /\ brightness3(r, g, b) < 3 * 200)
       \/ (g > 90 /\ r > 70 /\ b < 80 /\ brightness3(r, g, b) < 3 * 210 /\ b < r /\ b < g)
       \/ (r > 80 /\ g > 70 /\ b < 70 /\ brightness3(r, g, b) < 3 * 190)

is_skin_tone(r, g, b) == r > 150 /\ g > 100 /\ b > 80 /\ r > g /\ r > b

\* is_clothing_color reads is_blue_dominant, a name bound nowhere: the read
\* raises NameError as soon as the two brightness tests before it are true.
clothing_raises(r, g, b) ==
    brightness3(r, g, b) > 3 * 80 /\ brightness3(r, g, b) < 3 * 220

\* The if/elif chain of the fallback loop for one pixel (is_clothing_color
\* is False whenever it did not raise).
simple_classify(p) ==
    IF clothing_raises(p[1], p[2], p[3]) THEN "NameError"
    ELSE IF is_skin_tone(p[1], p[2], p[3]) THEN "subject"
    ELSE IF is_sky_like(p[1], p[2], p[3]) THEN "sky"
    ELSE IF is_ground_like(p[1], p[2], p[3]) THEN "ground"
    ELSE "other"

\* The if/elif chain of the second pass of segment_with_deeplab.
background_classify(p) ==
    IF is_sky_like(p[1], p[2], p[3]) THEN "sky"
    ELSE IF is_ground_like(p[1], p[2], p[3]) THEN "ground"
    ELSE "other"

\* ------------------------------------------------------------- masks
\* Mask with 255 at the pixels of img the fallback loop puts in category c.
simple_mask(img, c) ==
    [i \in 1..Len(img) |-> IF simple_classify(img[i]) = c THEN 255 ELSE 0]

\* simple_sky_ground_segmentation: the loop raises at the first pixel whose
\* is_clothing_color reads is_blue_dominant; otherwise the four masks.
simple_sky_ground_segmentation(img) ==
    IF \E i \in 1..Len(img) : simple_classify(img[i]) = "NameError"
    THEN [raised |-> TRUE, mode |-> "fallback", predictions |-> <<>>,
          subject |-> <<>>, sky |-> <<>>, ground |-> <<>>, other |-> <<>>]
    ELSE [raised |-> FALSE, mode |-> "fallback", predictions |-> <<>>,
          subject |-> simple_mask(img, "subject"),
          sky |-> simple_mask(img, "sky"),
          ground |-> simple_mask(img, "ground"),
          other |-> simple_mask(img, "other")]

PERSON_CLASS == 15

\* pred_image.resize((width, height), Image.NEAREST) when the shapes differ:
\* output column x reads input column floor((x + 0.5) * gw / width).
resize_nearest(grid, width) ==
    IF Len(grid) = width THEN grid
    ELSE [x \in 1..width |-> grid[(((2 * (x - 1) + 1) * Len(grid)) \div (2 * width)) + 1]]

\* A first pass that takes every class id from 15 up as a person.
first_pass_mut(pred) ==
    [i \in 1..Len(pred) |-> IF pred[i] >= PERSON_CLASS THEN 255 ELSE 0]

\* First pass: identify people.
first_pass(pred) ==
    [i \in 1..Len(pred) |-> IF pred[i] = PERSON_CLASS THEN 255 ELSE 0]

\* A second pass that does not skip the person pixels.
second_pass_visits_mut(subject, i) == TRUE

\* Second pass guard: pixels already classified as person are skipped.
second_pass_visits(subject, i) == subject[i] # 255

second_pass(img, subject, c) ==
    [i \in 1..Len(img) |->
        IF second_pass_visits(subject, i) /\ background_classify(img[i]) = c
        THEN 255 ELSE 0]

\* The try block of segment_with_deeplab once the model call has returned grid.
refine(img, grid) ==
    LET pred == resize_nearest(grid, Len(img))
        subject == first_pass(pred)
    IN [raised |-> FALSE, mode |-> "refinement", predictions |-> pred,
        subject |-> subject,
        sky |-> second_pass(img, subject, "sky"),
        ground |-> second_pass(img, subject, "ground"),
        other |-> second_pass(img, subject, "other")]

\* segment_with_deeplab; infer is the outcome of the model call,
\* [fault |-> TRUE] or [fault |-> FALSE, grid |-> g].
segment_with_deeplab(img, infer) ==
    IF deeplab_model = "None" THEN simple_sky_ground_segmentation(img)
    ELSE IF infer.fault THEN simple_sky_ground_segmentation(img)
    ELSE refine(img, infer.grid)

\* Whether segment_with_deeplab reaches its except branch and prints.
logs_fault(infer) == deeplab_model # "None" /\ infer.fault

\* ------------------------------------------------------------ compositor
create_segmentation_mask(subject, sky, ground, other) ==
    [i \in 1..Len(sky) |->
        IF other[i] > 0 THEN <<255, 255, 0>>
        ELSE IF ground[i] > 0 THEN <<255, 165, 0>>
        ELSE IF sky[i] > 0 THEN <<0, 255, 255>>
        ELSE IF subject[i] > 0 THEN <<255, 0, 255>>
        ELSE <<0, 0, 0>>]

\* A background mask that leaves the other category out.
combined_bg_mask_mut(sky, ground, other, i) == sky[i] > 0 \/ ground[i] > 0

combined_bg_mask(sky, ground, other, i) == sky[i] > 0 \/ ground[i] > 0 \/ other[i] > 0

rgba_cutout(img, sky, ground, other) ==
    [i \in 1..Len(img) |->
        <<img[i][1], img[i][2], img[i][3],
          IF combined_bg_mask(sky, ground, other, i) THEN 0 ELSE 255>>]

\* ----------------------------------------------------------------- health
health_status(model) == IF model # "None" THEN "ok" ELSE "fallback"

\* A health report that always says the model is loaded.
health_model_loaded_mut(model) == TRUE

health_model_loaded(model) == model # "None"

NoHealth == [status |-> "", service |-> "", model_loaded |-> FALSE]

\* ------------------------------------------------------------------ Init
\* No request in progress: every per-request value is gone.
Idle ==
    /\ op = "none"
    /\ request = "none"
    /\ status = 0
    /\ error = ""
    /\ image = <<>>
    /\ mode = "none"
    /\ predictions = <<>>
    /\ subject_mask = <<>>
    /\ sky_mask = <<>>
    /\ ground_mask = <<>>
    /\ other_mask = <<>>
    /\ output = <<>>
    /\ health_body = NoHealth

\* State once the module has been imported: load_deeplab_model has either
\* set the global or failed and left it None; no request has been served.
Init ==
    /\ deeplab_model \in {"None", "loaded"}
    /\ numpy2 \in BOOLEAN
    /\ infer_faults \in BOOLEAN
    /\ fault_logged = FALSE
    /\ Idle

\* Outcomes the model call can have for one request.
InferOutcomes ==
    IF infer_faults THEN { [fault |-> TRUE, grid |-> <<>>] }
    ELSE { [fault |-> FALSE, grid |-> g] : g \in Grids }

\* A response that carries no image: the 400 and 500 returns.  img and md
\* are the input image and the classifier in use, if the handler got there.
Reject(name, req, code, text, img, md) ==
    /\ op' = name
    /\ request' = req.kind
    /\ status' = code
    /\ error' = text
    /\ image' = img
    /\ mode' = md
    /\ predictions' = <<>>
    /\ subject_mask' = <<>>
    /\ sky_mask' = <<>>
    /\ ground_mask' = <<>>
    /\ other_mask' = <<>>
    /\ output' = <<>>
    /\ health_body' = NoHealth
    /\ UNCHANGED <<deeplab_model, numpy2, infer_faults>>

\* The image a handler builds from the masks m of its input image.
compose(name, img, m) ==
    IF name = "segment"
    THEN create_segmentation_mask(m.subject, m.sky, m.ground, m.other)
    ELSE rgba_cutout(img, m.sky, m.ground, m.other)

\* The common body of the two image handlers.
Handle(name, req, infer) ==
    CASE req.kind = "nofile" ->
            Reject(name, req, 400, "No image file provided", <<>>, "none") /\ UNCHANGED fault_logged
      [] req.kind = "emptyname" ->
            Reject(name, req, 400, "No file selected", <<>>, "none") /\ UNCHANGED fault_logged
      [] req.kind = "unreadable" ->
            Reject(name, req, 500, "cannot identify image file", <<>>, "none") /\ UNCHANGED fault_logged
      [] req.kind = "image" ->
            LET m == segment_with_deeplab(req.image, infer) IN
            /\ fault_logged' = (fault_logged \/ logs_fault(infer))
            /\ IF m.raised
               THEN /\ Reject(name, req, 500, "name 'is_blue_dominant' is not defined",
                           req.image, m.mode)
               ELSE /\ op' = name
                    /\ request' = req.kind
                    /\ status' = 200
                    /\ error' = ""
                    /\ image' = req.image
                    /\ mode' = m.mode
                    /\ predictions' = m.predictions
                    /\ subject_mask' = m.subject
                    /\ sky_mask' = m.sky
                    /\ ground_mask' = m.ground
                    /\ other_mask' = m.other
                    /\ output' = compose(name, req.image, m)
                    /\ health_body' = NoHealth
                    /\ UNCHANGED <<deeplab_model, numpy2, infer_faults>>

segment(req, infer) == Handle("segment", req, infer)

remove_background(req, infer) == Handle("remove_background", req, infer)

health ==
    /\ Idle
    /\ op' = "health"
    /\ request' = "health"
    /\ status' = 200
    /\ error' = ""
    /\ image' = <<>>
    /\ mode' = "none"
    /\ predictions' = <<>>
    /\ subject_mask' = <<>>
    /\ sky_mask' = <<>>
    /\ ground_mask' = <<>>
    /\ other_mask' = <<>>
    /\ output' = <<>>
    /\ health_body' = [status |-> health_status(deeplab_model),
                       service |-> "deeplab",
                       model_loaded |-> health_model_loaded(deeplab_model)]
    /\ UNCHANGED <<deeplab_model, numpy2, infer_faults, fault_logged>>

\* The response has been sent: the request's values go out of scope; only
\* the module globals live on to the next request.
request_done ==
    /\ op # "none"
    /\ op' = "none"
    /\ request' = "none"
    /\ status' = 0
    /\ error' = ""
    /\ image' = <<>>
    /\ mode' = "none"
    /\ predictions' = <<>>
    /\ subject_mask' = <<>>
    /\ sky_mask' = <<>>
    /\ ground_mask' = <<>>
    /\ other_mask' = <<>>
    /\ output' = <<>>
    /\ health_body' = NoHealth
    /\ UNCHANGED <<deeplab_model, numpy2, infer_faults, fault_logged>>

\* A request arrives while none is being answered.
Next ==
    \/ Idle /\ \E req \in Requests : \E infer \in InferOutcomes : segment(req, infer)
    \/ Idle /\ \E req \in Requests : \E infer \in InferOutcomes : remove_background(req, infer)
    \/ health
    \/ request_done

Spec == Init /\ [][Next]_vars

\* ===================================================================
\* The rules as the specification states them, on exact integers: the sum
\* of the channels is not reduced, and |r - g| is the true distance.
\* ===================================================================
exact_sum(p) == p[1] + p[2] + p[3]

exact_sky(p) ==
    /\ exact_sum(p) > 3 * 80
    /\ p[3] > 80
    /\ (p[3] >= p[1] \/ p[3] >= p[2])
    /\ (p[3] > p[1] + 5 \/ p[3] > p[2] + 5)
    /\ max3(p[1], p[2], p[3]) - min3(p[1], p[2], p[3]) < 180

exact_green_dominant(p) == p[2] > p[1] + 20 /\ p[2] > p[3] + 20

exact_brownish(p) ==
    /\ p[1] > 100 /\ p[2] > 80 /\ p[3] < 100
    /\ (IF p[1] >= p[2] THEN p[1] - p[2] ELSE p[2] - p[1]) < 30

exact_blue_dominant(p) == p[3] > p[1] + 20 /\ p[3] > p[2] + 20

exact_ground_sub(p) ==
    \/ (exact_green_dominant(p) /\ p[2] > 100 /\ exact_sum(p) < 3 * 230)
    \/ (exact_brownish(p) /\ exact_sum(p) < 3 * 200)
    \/ (p[2] > 90 /\ p[1] > 70 /\ p[3] < 80 /\ exact_sum(p) < 3 * 210
            /\ p[3] < p[1] /\ p[3] < p[2])
    \/ (p[1] > 80 /\ p[2] > 70 /\ p[3] < 70 /\ exact_sum(p) < 3 * 190)

exact_clothing(p) ==
    /\ exact_sum(p) > 3 * 80 /\ exact_sum(p) < 3 * 220
    /\ ~ exact_blue_dominant(p)
    /\ ~ exact_green_dominant(p)
    /\ ~ exact_brownish(p)

\* An image request was answered with masks.
Classified == request = "image" /\ status = 200

\* The model is absent or its call faults.
ModelUnusable == deeplab_model = "None" \/ infer_faults

\* ===================================================================
\* Claims
\* ===================================================================

\* C1: when the model is absent or its inference call faults, an image
\* request to segment or remove-background never fails: it is answered 200
\* with the masks of the fallback classifier.
C1_FallbackNeverFails ==
    (op \in {"segment", "remove_background"} /\ request = "image" /\ ModelUnusable)
        => (status = 200 /\ error = "" /\ mode = "fallback"
            /\ Len(subject_mask) = Len(image))

\* C2: the fallback classifier is total: every 8-bit pixel it is run on
\* gets one of the four categories, none makes the classification fail.
C2_FallbackTotal ==
    mode = "fallback" =>
        \A i \in 1..Len(image) :
            simple_classify(image[i]) \in {"subject", "sky", "ground", "other"}

\* C3: once classification has returned, in either mode, every pixel is set
\* in exactly one of the four masks.
C3_MasksPartition ==
    Classified =>
        /\ Len(subject_mask) = Len(image) /\ Len(sky_mask) = Len(image)
        /\ Len(ground_mask) = Len(image) /\ Len(other_mask) = Len(image)
        /\ \A i \in 1..Len(image) :
              /\ {subject_mask[i], sky_mask[i], ground_mask[i], other_mask[i]} = {0, 255}
              /\ subject_mask[i] + sky_mask[i] + ground_mask[i] + other_mask[i] = 255

\* A refinement result with a person pixel whose colour is sky-like beside a
\* background pixel classified ground.
C3_Witness ==
    /\ Classified /\ mode = "refinement"
    /\ \E i, j \in 1..Len(image) :
          /\ predictions[i] = 15
          /\ is_sky_like(image[i][1], image[i][2], image[i][3])
          /\ ground_mask[j] = 255

\* C4: in refinement mode a pixel is in the subject mask, and in no other,
\* exactly when its class id in the resized grid is 15, whatever its colour.
C4_PersonLockIn ==
    mode = "refinement" =>
        \A i \in 1..Len(image) :
            /\ predictions[i] = 15 =>
                  /\ subject_mask[i] = 255
                  /\ sky_mask[i] = 0 /\ ground_mask[i] = 0 /\ other_mask[i] = 0
            /\ predictions[i] # 15 => subject_mask[i] = 0

\* A refinement result with a person pixel of ground colour and a pixel of
\* another, non-person class.
C4_Witness ==
    /\ mode = "refinement"
    /\ \E i, j \in 1..Len(image) :
          /\ predictions[i] = 15
          /\ is_ground_like(image[i][1], image[i][2], image[i][3])
          /\ predictions[j] = 16

\* C5: in fallback mode every pixel satisfying the skin-tone rule or the
\* clothing-colour rule is classified subject.
C5_SubjectPriority ==
    (mode = "fallback" /\ Classified) =>
        \A i \in 1..Len(image) :
            (is_skin_tone(image[i][1], image[i][2], image[i][3]) \/ exact_clothing(image[i]))
                => subject_mask[i] = 255

\* C6: a pixel not taken as subject that satisfies the sky predicate and one
\* of the four ground sub-predicates is classified sky, never ground.
C6_SkyPriority ==
    Classified =>
        \A i \in 1..Len(image) :
            (subject_mask[i] # 255 /\ exact_sky(image[i]) /\ exact_ground_sub(image[i]))
                => (sky_mask[i] = 255 /\ ground_mask[i] = 0)

\* C7: the remove-background output keeps R, G and B of every pixel and has
\* alpha 0 exactly at the pixels of the sky, ground or other mask, 255 at
\* the others, subject pixels included.
C7_Cutout ==
    (op = "remove_background" /\ status = 200) =>
        /\ Len(output) = Len(image)
        /\ \A i \in 1..Len(image) :
              /\ output[i][1] = image[i][1]
              /\ output[i][2] = image[i][2]
              /\ output[i][3] = image[i][3]
              /\ output[i][4] \in {0, 255}
              /\ output[i][4] = 0 <=>
                    (sky_mask[i] = 255 \/ ground_mask[i] = 255 \/ other_mask[i] = 255)
              /\ subject_mask[i] = 255 => output[i][4] = 255
        /\ (\A i \in 1..Len(image) : sky_mask[i] = 255 \/ ground_mask[i] = 255)
              => \A i \in 1..Len(image) : output[i][4] = 0

\* A cutout of an image with a subject pixel, a sky pixel and an other pixel.
C7_Witness ==
    /\ op = "remove_background" /\ status = 200
    /\ \E i, j \in 1..Len(image) :
          /\ subject_mask[i] = 255 /\ output[i][4] = 255
          /\ other_mask[j] = 255 /\ output[j][4] = 0

C9_BrightnessExactMean ==
    request = "image" =>
        \A i \in 1..Len(image) :
            /\ brightness3(image[i][1], image[i][2], image[i][3]) = exact_sum(image[i])
            /\ (Classified /\ image[i] = <<135, 206, 235>> /\ subject_mask[i] # 255)
                  => sky_mask[i] = 255

\* C10: in refinement mode a non-person pixel that is not sky-like, has
\* b < 90 and brightness < 200 and is brownish with |r - g| < 30 in either
\* order is classified ground.
C10_BrownishGround ==
    mode = "refinement" =>
        \A i \in 1..Len(image) :
            ( /\ predictions[i] # 15
              /\ ~ exact_sky(image[i])
              /\ image[i][3] < 90
              /\ exact_sum(image[i]) < 3 * 200
              /\ exact_brownish(image[i]) )
                => ground_mask[i] = 255

====
